---- MODULE Spec2Model ----
(***************************************************************************)
(* A model of pluggy's PluginManager (src/src/pluggy/manager.py): the name *)
(* and plugin registries, registration and unregistration, blocking, spec  *)
(* binding with deferred validation, pending checks, derived hook callers, *)
(* historic replay and hook-call monitoring.                               *)
(*                                                                         *)
(* The hook caller, the multicall executor and the result wrapper live in  *)
(* hooks.py, callers.py and _result.py; they are modelled from sections    *)
(* 4.2 and 4.3 of the design document.                                     *)
(***************************************************************************)
EXTENDS Integers, Sequences, FiniteSets, TLC

VARIABLES
    name2plugin,          \* PluginManager._name2plugin, an insertion-ordered dict
    plugin2hookcallers,   \* PluginManager._plugin2hookcallers
    hook,                 \* PluginManager.hook, the _HookRelay namespace
    derived,              \* hook callers made by subset_hook_caller
    inner_hookexec,       \* PluginManager._inner_hookexec, as its chain of tracers
    oldcall,              \* the oldcall captured by each add_hookcall_monitoring
    undone,               \* the installations whose undo function has been called
    nested,               \* every undo so far was of the newest active installation
    last,                 \* the most recent operation, its arguments and outcome
    trace                 \* the functions that operation invoked, in order

vars == <<name2plugin, plugin2hookcallers, hook, derived, inner_hookexec,
          oldcall, undone, nested, last, trace>>

registry == <<name2plugin, plugin2hookcallers, hook, derived>>

----------------------------------------------------------------------------
(* Bounds of the model *)

MaxHistory == 2      \* stored calls of a historic hook
MaxDerived == 1      \* hook callers made by subset_hook_caller
MaxMonitors == 2     \* installations of add_hookcall_monitoring
MaxArgs == 2         \* positional parameters a callable declares, self aside

----------------------------------------------------------------------------
(* The plugins, names, hooks and namespaces the operations are applied to *)

NoName == "NoName"        \* the argument name=None
NoPlugin == "NoPlugin"    \* the argument plugin=None, and a None plugin result
Blocked == "Blocked"      \* the value None stored in _name2plugin
Absent == "Absent"        \* the key is not in the dict

Plugins == {"p1", "p2", "p3", "p4", "p5", "p6"}

\* the plugins of the registry, validation and replay scenarios
CorePlugins == {"p1", "p2", "p3"}

HookNames == {"h1", "h2", "_h3"}

\* the names whose first character is an underscore
Underscored == {"_h3"}

\* One marked method of a plugin: the attribute name, the hookimpl options,
\* the declared argument names and what the function does when invoked: a
\* plain function returns ret, returns None or raises; a hookwrapper yields
\* once and then leaves the outcome alone ("None") or forces the result ret.
Method(attr, specname, argnames, hookwrapper, optionalhook, tryfirst, trylast, ret) ==
    [attr |-> attr, specname |-> specname, argnames |-> argnames,
     hookwrapper |-> hookwrapper, optionalhook |-> optionalhook,
     tryfirst |-> tryfirst, trylast |-> trylast, ret |-> ret]

\* dir(plugin) restricted to the methods parse_hookimpl_opts accepts, in
\* dir()'s sorted order.
PluginMethods(p) ==
    CASE p = "p1" ->
           << Method("h1", "", {"x"}, FALSE, FALSE, FALSE, FALSE, "r1"),
              Method("h2", "", {"x"}, FALSE, TRUE, FALSE, FALSE, "r2") >>
      [] p = "p2" ->
           << Method("h1", "", {"x"}, FALSE, FALSE, TRUE, FALSE, "raise"),
              Method("h2", "", {"y"}, FALSE, TRUE, FALSE, FALSE, "None") >>
      [] p = "p3" ->
           << Method("_h3", "", {"x"}, FALSE, FALSE, FALSE, FALSE, "r3"),
              Method("wrap", "h2", {"x"}, TRUE, TRUE, FALSE, FALSE, "None") >>
      [] p = "p4" ->
           << Method("_h3", "", {"x"}, FALSE, FALSE, TRUE, FALSE, "None"),
              Method("h1", "", {"x"}, FALSE, FALSE, TRUE, FALSE, "r4"),
              Method("h1_last", "h1", {"x"}, FALSE, FALSE, FALSE, TRUE, "r5") >>
      [] p = "p5" ->
           << Method("_h3", "", {"x"}, FALSE, FALSE, FALSE, TRUE, "r6"),
              Method("around", "h1", {"x"}, TRUE, FALSE, FALSE, FALSE, "None") >>
      [] p = "p6" ->
           << Method("around", "h1", {"x"}, TRUE, FALSE, FALSE, FALSE, "s6") >>

\* every attribute name of the plugin (hasattr)
PluginAttrs(p) == { PluginMethods(p)[i].attr : i \in 1..Len(PluginMethods(p)) }

get_canonical_name(p) ==
    CASE p = "p1" -> "mod1"
      [] p = "p2" -> "mod2"
      [] p = "p3" -> "mod3"
      [] p = "p4" -> "mod4"
      [] p = "p5" -> "mod5"
      [] p = "p6" -> "mod6"

Names == { get_canonical_name(p) : p \in Plugins } \cup {"a"}

Namespaces == {"NsA", "NsB", "NsEmpty"}

SpecOpts(name, argnames, firstresult, historic) ==
    [name |-> name, argnames |-> argnames, firstresult |-> firstresult,
     historic |-> historic]

\* dir(module_or_class) restricted to the names parse_hookspec_opts accepts,
\* in dir()'s sorted order.
NamespaceSpecs(ns) ==
    CASE ns = "NsA" -> << SpecOpts("h1", {"x"}, FALSE, FALSE),
                          SpecOpts("h2", {"x"}, FALSE, TRUE) >>
      [] ns = "NsB" -> << SpecOpts("_h3", {"x"}, TRUE, FALSE) >>
      [] ns = "NsEmpty" -> << >>

KwargValues == {1, 2}

----------------------------------------------------------------------------
(* The insertion-ordered dict _name2plugin: a sequence of (key, value) *)

HasKey(d, k) == \E i \in 1..Len(d) : d[i].name = k

DictGet(d, k) ==
    IF HasKey(d, k)
    THEN d[CHOOSE i \in 1..Len(d) : d[i].name = k].val
    ELSE Absent

DictSet(d, k, v) ==
    IF HasKey(d, k)
    THEN [i \in 1..Len(d) |-> IF d[i].name = k THEN [name |-> k, val |-> v] ELSE d[i]]
    ELSE Append(d, [name |-> k, val |-> v])

DictDel(d, k) ==
    LET Keep(e) == e.name # k IN SelectSeq(d, Keep)

----------------------------------------------------------------------------
(* Hook implementations and hook callers (hooks.py) *)

HookImpl(plugin, plugin_name, m) ==
    [plugin |-> plugin, plugin_name |-> plugin_name, attr |-> m.attr,
     argnames |-> m.argnames, hookwrapper |-> m.hookwrapper,
     optionalhook |-> m.optionalhook, tryfirst |-> m.tryfirst,
     trylast |-> m.trylast, ret |-> m.ret]

NoSpec ==
    [namespace |-> "", argnames |-> {}, firstresult |-> FALSE, historic |-> FALSE]

\* getattr(self.hook, name, None) is None
NoCaller ==
    [exists |-> FALSE, name |-> "", has_spec |-> FALSE, spec |-> NoSpec,
     nonwrappers |-> << >>, wrappers |-> << >>, call_history |-> << >>]

HookSpec(namespace, opts) ==
    [namespace |-> namespace, argnames |-> opts.argnames,
     firstresult |-> opts.firstresult, historic |-> opts.historic]

set_specification(hc, namespace, opts) ==
    [hc EXCEPT !.has_spec = TRUE,
               !.spec = HookSpec(namespace, opts),
               !.call_history = IF hc.has_spec /\ hc.spec.historic /\ opts.historic
                                THEN hc.call_history ELSE << >>]

\* _HookCaller(name, hook_execute) without a specification
NewHookCaller(name) == [NoCaller EXCEPT !.exists = TRUE, !.name = name]

\* _HookCaller(name, hook_execute, specmodule_or_class, spec_opts)
NewSpecHookCaller(name, namespace, opts) ==
    set_specification(NewHookCaller(name), namespace, opts)

has_spec(hc) == hc.has_spec

is_historic(hc) == hc.has_spec /\ hc.spec.historic

get_hookimpls(hc) == hc.nonwrappers \o hc.wrappers

InsertAt(s, i, e) == SubSeq(s, 1, i) \o <<e>> \o SubSeq(s, i + 1, Len(s))

\* every implementation appended, whatever its options
AddAppended(methods, impl) == Append(methods, impl)

\* trylast implementations first, then the unmarked ones, then the tryfirst
\* ones; insertion order within each tier
AddOrdered(methods, impl) ==
    LET IsLast(e) == e.trylast
        NotFirst(e) == ~e.tryfirst
    IN  IF impl.trylast THEN InsertAt(methods, Len(SelectSeq(methods, IsLast)), impl)
        ELSE IF impl.tryfirst THEN Append(methods, impl)
        ELSE InsertAt(methods, Len(SelectSeq(methods, NotFirst)), impl)

_add_hookimpl(hc, impl) ==
    IF impl.hookwrapper
    THEN [hc EXCEPT !.wrappers = AddOrdered(hc.wrappers, impl)]
    ELSE [hc EXCEPT !.nonwrappers = AddOrdered(hc.nonwrappers, impl)]

_remove_plugin(hc, plugin) ==
    LET Other(e) == e.plugin # plugin
    IN  [hc EXCEPT !.nonwrappers = SelectSeq(hc.nonwrappers, Other),
                   !.wrappers = SelectSeq(hc.wrappers, Other)]

----------------------------------------------------------------------------
(* The multicall executor (callers.py) and the result wrapper (_result.py) *)

Event(kind, plugin, attr, mon, x, exc, val) ==
    [kind |-> kind, plugin |-> plugin, attr |-> attr, mon |-> mon, x |-> x,
     exc |-> exc, val |-> val]

\* an outcome: the value produced, or the failure raised, with the events so far
Outcome(tr, exc, val) == [trace |-> tr, exc |-> exc, val |-> val]

\* an implementation receives the keyword arguments it declares
PassedArg(impl, x) == IF "x" \in impl.argnames THEN x ELSE 0

Reverse(s) == [i \in 1..Len(s) |-> s[Len(s) + 1 - i]]

\* the values a call can produce: a list of results, one result, or None
ListOf(results) == <<"list">> \o results
Single(v) == <<"value", v>>
None == <<"None">>

RECURSIVE RunPlain(_, _, _, _, _)
\* the plain implementations, already in execution order
RunPlain(impls, x, firstresult, tr, results) ==
    IF impls = << >>
    THEN Outcome(tr, FALSE, IF firstresult THEN None ELSE ListOf(results))
    ELSE LET impl == Head(impls)
             ev == Event("call", impl.plugin, impl.attr, 0, PassedArg(impl, x),
                         impl.ret = "raise", << >>)
         IN  IF impl.ret = "raise"
             THEN Outcome(Append(tr, ev), TRUE, <<"failure">>)
             ELSE IF impl.ret = "None"
             THEN RunPlain(Tail(impls), x, firstresult, Append(tr, ev), results)
             ELSE IF firstresult
             THEN Outcome(Append(tr, ev), FALSE, Single(impl.ret))
             ELSE RunPlain(Tail(impls), x, firstresult, Append(tr, ev),
                           Append(results, impl.ret))

\* the hookwrappers resumed with the outcome of the plain implementations,
\* whatever they force being dropped
Teardown_passive(teardowns, outcome) ==
    Outcome(outcome.trace \o
              [i \in 1..Len(teardowns) |->
                 Event("resume", teardowns[i].plugin, teardowns[i].attr, 0, 0,
                       outcome.exc, outcome.val)],
            outcome.exc, outcome.val)

RECURSIVE Teardown(_, _)
\* the entered hookwrappers, last entered first, each resumed with the
\* outcome as the wrappers resumed before it left it
Teardown(teardowns, outcome) ==
    IF teardowns = << >> THEN outcome
    ELSE LET w == Head(teardowns)
             ev == Event("resume", w.plugin, w.attr, 0, 0, outcome.exc, outcome.val)
         IN  Teardown(Tail(teardowns),
                      IF w.ret = "None"
                      THEN Outcome(Append(outcome.trace, ev), outcome.exc, outcome.val)
                      ELSE Outcome(Append(outcome.trace, ev), FALSE, Single(w.ret)))

\* _multicall collecting every result, firstresult or not
_multicall_collecting(hook_impls, x, firstresult) ==
    LET IsWrapper(e) == e.hookwrapper
        IsPlain(e) == ~e.hookwrapper
        entered == Reverse(SelectSeq(hook_impls, IsWrapper))
        plain == Reverse(SelectSeq(hook_impls, IsPlain))
        enter == [i \in 1..Len(entered) |->
                    Event("enter", entered[i].plugin, entered[i].attr, 0,
                          PassedArg(entered[i], x), FALSE, << >>)]
    IN  Teardown(Reverse(entered), RunPlain(plain, x, FALSE, enter, << >>))

_multicall(hook_impls, x, firstresult) ==
    LET IsWrapper(e) == e.hookwrapper
        IsPlain(e) == ~e.hookwrapper
        entered == Reverse(SelectSeq(hook_impls, IsWrapper))
        plain == Reverse(SelectSeq(hook_impls, IsPlain))
        enter == [i \in 1..Len(entered) |->
                    Event("enter", entered[i].plugin, entered[i].attr, 0,
                          PassedArg(entered[i], x), FALSE, << >>)]
        body == RunPlain(plain, x, firstresult, enter, << >>)
    IN  Teardown(Reverse(entered), body)

----------------------------------------------------------------------------
(* PluginManager: the call indirection and its monitoring *)

RECURSIVE _hookexec_uncaught(_, _, _, _, _)
\* _hookexec with oldcall called outside _Result.from_call: a failure of the
\* execution passes the after function by
_hookexec_uncaught(chain, methods, x, firstresult, badbefore) ==
    IF chain = << >> THEN _multicall(methods, x, firstresult)
    ELSE LET m == Head(chain)
             before == Event("before", "", "", m, x, FALSE, << >>)
         IN  IF m = badbefore
             THEN Outcome(<<before>>, TRUE, <<"before failed">>)
             ELSE LET outcome == _hookexec_uncaught(Tail(chain), methods, x,
                                                    firstresult, badbefore)
                      after == Event("after", "", "", m, x, outcome.exc, outcome.val)
                  IN  IF outcome.exc
                      THEN Outcome(<<before>> \o outcome.trace, TRUE, outcome.val)
                      ELSE Outcome(<<before>> \o outcome.trace \o <<after>>,
                                   outcome.exc, outcome.val)

RECURSIVE _hookexec_result_dropped(_, _, _, _, _)
\* _hookexec with traced_hookexec returning the outcome object in place of
\* outcome.get_result(): a failure is not raised again
_hookexec_result_dropped(chain, methods, x, firstresult, badbefore) ==
    IF chain = << >> THEN _multicall(methods, x, firstresult)
    ELSE LET m == Head(chain)
             before == Event("before", "", "", m, x, FALSE, << >>)
         IN  IF m = badbefore
             THEN Outcome(<<before>>, TRUE, <<"before failed">>)
             ELSE LET outcome == _hookexec_result_dropped(Tail(chain), methods, x,
                                                          firstresult, badbefore)
                      after == Event("after", "", "", m, x, outcome.exc, outcome.val)
                  IN  Outcome(<<before>> \o outcome.trace \o <<after>>,
                              FALSE, outcome.val)

RECURSIVE _hookexec(_, _, _, _, _)
\* self._inner_hookexec(hook_name, methods, kwargs, firstresult), where the
\* chain lists the traced_hookexec closures from the outermost inward and
\* ends in _multicall; badbefore is the tracer whose before function raises
\* (0: none does)
_hookexec(chain, methods, x, firstresult, badbefore) ==
    IF chain = << >> THEN _multicall(methods, x, firstresult)
    ELSE LET m == Head(chain)
             before == Event("before", "", "", m, x, FALSE, << >>)
         IN  IF m = badbefore
             THEN Outcome(<<before>>, TRUE, <<"before failed">>)
             ELSE LET outcome == _hookexec(Tail(chain), methods, x, firstresult,
                                           badbefore)
                      after == Event("after", "", "", m, x, outcome.exc, outcome.val)
                  IN  Outcome(<<before>> \o outcome.trace \o <<after>>,
                              outcome.exc, outcome.val)

RECURSIVE replay_calls(_, _, _, _)
\* the stored calls, oldest first, made to one implementation alone
replay_calls(chain, history, impl, tr) ==
    IF history = << >> THEN Outcome(tr, FALSE, << >>)
    ELSE LET res == _hookexec(chain, <<impl>>, Head(history), FALSE, 0)
         IN  IF res.exc THEN Outcome(tr \o res.trace, TRUE, res.val)
             ELSE replay_calls(chain, Tail(history), impl, tr \o res.trace)

_maybe_apply_history(chain, hc, impl, tr) ==
    IF is_historic(hc) THEN replay_calls(chain, hc.call_history, impl, tr)
    ELSE Outcome(tr, FALSE, << >>)

----------------------------------------------------------------------------
(* PluginManager: the registries *)

get_plugin(n2p, name) ==
    IF DictGet(n2p, name) \in Plugins THEN DictGet(n2p, name) ELSE NoPlugin

has_plugin(n2p, name) == get_plugin(n2p, name) # NoPlugin

\* get_name taken for get_canonical_name
get_name_canonical(n2p, plugin) == get_canonical_name(plugin)

get_name(n2p, plugin) ==
    IF \E i \in 1..Len(n2p) : n2p[i].val = plugin
    THEN LET first == CHOOSE i \in 1..Len(n2p) :
                        /\ n2p[i].val = plugin
                        /\ \A j \in 1..(i - 1) : n2p[j].val # plugin
         IN  n2p[first].name
    ELSE NoName

is_registered(p2h, plugin) == plugin \in Plugins /\ p2h[plugin].present

is_blocked(n2p, name) == HasKey(n2p, name) /\ DictGet(n2p, name) = Blocked

get_plugins(p2h) == { p \in Plugins : p2h[p].present }

NotRegistered == [present |-> FALSE, hcs |-> << >>]

\* a reference to a hook caller: the manager's own (sub = 0) or a derived one
Ref(sub, name) == [sub |-> sub, name |-> name]

Caller(h, d, ref) == IF ref.sub = 0 THEN h[ref.name] ELSE d[ref.sub]

Range(s) == { s[i] : i \in 1..Len(s) }

Holds(hc, plugin) ==
    \E i \in 1..Len(get_hookimpls(hc)) : get_hookimpls(hc)[i].plugin = plugin

\* some hook caller, the manager's or a derived one, holds an implementation
\* of the plugin
Attached(h, d, plugin) ==
    \/ \E n \in HookNames : h[n].exists /\ Holds(h[n], plugin)
    \/ \E i \in 1..Len(d) : Holds(d[i], plugin)

----------------------------------------------------------------------------
(* PluginManager._verify_hook *)

\* _verify_hook without the historic/hookwrapper test
_verify_hook_args_only(hc, impl) ==
    IF impl.argnames \ hc.spec.argnames # {} THEN "PluginValidationError"
    ELSE "ok"

_verify_hook(hc, impl) ==
    IF is_historic(hc) /\ impl.hookwrapper THEN "PluginValidationError"
    ELSE IF impl.argnames \ hc.spec.argnames # {} THEN "PluginValidationError"
    ELSE "ok"

----------------------------------------------------------------------------
(* PluginManager.register *)

\* register_check without the test of the plugin object
register_check_name_only(n2p, p2h, plugin, plugin_name) ==
    IF HasKey(n2p, plugin_name)
    THEN IF DictGet(n2p, plugin_name) = Blocked THEN "None" ELSE "ValueError"
    ELSE "ok"

\* the duplicate and blocked checks ahead of any change
register_check(n2p, p2h, plugin, plugin_name) ==
    IF HasKey(n2p, plugin_name) \/ p2h[plugin].present
    THEN IF DictGet(n2p, plugin_name) = Blocked THEN "None" ELSE "ValueError"
    ELSE "ok"

\* apply_history left out of register
apply_history_skipped(chain, hc, hookimpl, tr) == Outcome(tr, FALSE, << >>)

\* hook._maybe_apply_history(hookimpl)
apply_history(chain, hc, hookimpl, tr) == _maybe_apply_history(chain, hc, hookimpl, tr)

RegisterResult(h, hcs, tr, result, failed) ==
    [hook |-> h, hcs |-> hcs, trace |-> tr, result |-> result, failed |-> failed]

RECURSIVE register_loop_replay_first(_, _, _, _, _, _, _)
\* register_loop with the replay of the stored calls ahead of _verify_hook
register_loop_replay_first(h, hcs, tr, chain, plugin, plugin_name, i) ==
    IF i > Len(PluginMethods(plugin)) THEN RegisterResult(h, hcs, tr, "ok", "")
    ELSE
    LET m == PluginMethods(plugin)[i]
        hookimpl == HookImpl(plugin, plugin_name, m)
        name == IF m.specname # "" THEN m.specname ELSE m.attr
        hc == h[name]
        added(c, t) == register_loop_replay_first(
                           [h EXCEPT ![name] = _add_hookimpl(c, hookimpl)],
                           Append(hcs, Ref(0, name)), t, chain,
                           plugin, plugin_name, i + 1)
    IN  IF ~hc.exists THEN added(NewHookCaller(name), tr)
        ELSE IF has_spec(hc)
        THEN LET replay == apply_history(chain, hc, hookimpl, tr)
             IN  IF replay.exc
                 THEN RegisterResult(h, hcs, replay.trace, "CallFailure", name)
                 ELSE IF _verify_hook(hc, hookimpl) # "ok"
                 THEN RegisterResult(h, hcs, replay.trace,
                                     _verify_hook(hc, hookimpl), name)
                 ELSE added(hc, replay.trace)
        ELSE added(hc, tr)

RECURSIVE register_loop(_, _, _, _, _, _, _)
\* the loop over dir(plugin), from its i-th marked method on
register_loop(h, hcs, tr, chain, plugin, plugin_name, i) ==
    IF i > Len(PluginMethods(plugin)) THEN RegisterResult(h, hcs, tr, "ok", "")
    ELSE
    LET m == PluginMethods(plugin)[i]
        hookimpl == HookImpl(plugin, plugin_name, m)
        name == IF m.specname # "" THEN m.specname ELSE m.attr
        hc == h[name]
        added(c, t) == register_loop([h EXCEPT ![name] = _add_hookimpl(c, hookimpl)],
                                     Append(hcs, Ref(0, name)), t, chain,
                                     plugin, plugin_name, i + 1)
    IN  IF ~hc.exists THEN added(NewHookCaller(name), tr)
        ELSE IF has_spec(hc)
        THEN IF _verify_hook(hc, hookimpl) # "ok"
             THEN RegisterResult(h, hcs, tr, _verify_hook(hc, hookimpl), name)
             ELSE LET replay == apply_history(chain, hc, hookimpl, tr)
                  IN  IF replay.exc
                      THEN RegisterResult(h, hcs, replay.trace, "CallFailure", name)
                      ELSE added(hc, replay.trace)
        ELSE added(hc, tr)


----------------------------------------------------------------------------
(* Callables and the parameter names varnames reads off them (hooks.py) *)

\* one declared parameter: positional or keyword-only, with a default or not
Param(name, default, kwonly) == [name |-> name, default |-> default, kwonly |-> kwonly]

\* a callable: a plain function, a bound method, an object with __call__ or
\* a class; params is the signature of the function behind it as declared,
\* the implicit first parameter included; own_init is false for a class that
\* defines no __init__
Callable(kind, own_init, params) == [kind |-> kind, own_init |-> own_init, params |-> params]

NoFunc == Callable("", FALSE, << >>)

Kinds == {"function", "method", "object", "class"}

ArgNames == {"x", "y", "z"}

\* the positional parameters a def statement accepts: distinct names, the
\* ones without a default ahead of the ones with a default
Positionals ==
    LET names == { s \in UNION { [1..n -> ArgNames] : n \in 0..MaxArgs } :
                     \A i, j \in 1..Len(s) : s[i] = s[j] => i = j }
    IN  { [i \in 1..Len(s) |-> Param(s[i], i > r, FALSE)] :
             s \in names, r \in 0..MaxArgs }

\* nothing after the bare *, or one keyword-only parameter
KeywordOnly == { << >>, <<Param("k", FALSE, TRUE)>>, <<Param("k", TRUE, TRUE)>> }

\* the implicit first parameter of the function behind the callable
Implicit(kind) == IF kind = "function" THEN << >> ELSE <<Param("self", FALSE, FALSE)>>

Callables ==
    { Callable(kind, TRUE, Implicit(kind) \o pos \o kw) :
         kind \in Kinds, pos \in Positionals, kw \in KeywordOnly }
    \cup { Callable("class", FALSE, << >>) }

\* varnames leaving the implicit first parameter in place
varnames_unstripped(func) ==
    LET IsPositional(q) == ~q.kwonly
        Required(q) == ~q.default
        Defaulted(q) == q.default
        NamesOf_(ps) == [i \in 1..Len(ps) |-> ps[i].name]
        args == SelectSeq(func.params, IsPositional)
    IN  IF func.kind = "class" /\ ~func.own_init THEN << << >>, << >> >>
        ELSE << NamesOf_(SelectSeq(args, Required)), NamesOf_(SelectSeq(args, Defaulted)) >>

\* varnames(func): the positional parameter names without and with a default
varnames(func) ==
    LET IsPositional(q) == ~q.kwonly
        Required(q) == ~q.default
        Defaulted(q) == q.default
        NamesOf_(ps) == [i \in 1..Len(ps) |-> ps[i].name]
        spec_args == SelectSeq(func.params, IsPositional)
        args == IF func.kind # "function" /\ spec_args # << >>
                THEN Tail(spec_args) ELSE spec_args
    IN  IF func.kind = "class" /\ ~func.own_init THEN << << >>, << >> >>
        ELSE << NamesOf_(SelectSeq(args, Required)), NamesOf_(SelectSeq(args, Defaulted)) >>

Last(op, plugin, name, ns, hookname, result, ret) ==
    [op |-> op, plugin |-> plugin, name |-> name, ns |-> ns,
     hookname |-> hookname, result |-> result, ret |-> ret, removed |-> {},
     x |-> 0, badbefore |-> 0, value |-> << >>, sub |-> 0, func |-> NoFunc]

\* the name register() uses: name or self.get_canonical_name(plugin)
plugin_name_of(plugin, name) ==
    IF name = NoName THEN get_canonical_name(plugin) ELSE name

register(plugin, name) ==
    LET plugin_name == plugin_name_of(plugin, name)
        check == register_check(name2plugin, plugin2hookcallers, plugin, plugin_name)
        done == register_loop(hook, << >>, << >>, inner_hookexec, plugin,
                              plugin_name, 1)
    IN  IF check # "ok"
        THEN /\ last' = Last("register", plugin, name, "", "", check, "")
             /\ trace' = << >>
             /\ UNCHANGED <<registry, inner_hookexec, oldcall, undone, nested>>
        ELSE /\ name2plugin' = DictSet(name2plugin, plugin_name, plugin)
             /\ plugin2hookcallers' = [plugin2hookcallers EXCEPT
                    ![plugin] = [present |-> TRUE, hcs |-> done.hcs]]
             /\ hook' = done.hook
             /\ trace' = done.trace
             /\ last' = Last("register", plugin, name, "", done.failed, done.result,
                             IF done.result = "ok" THEN plugin_name ELSE "")
             /\ UNCHANGED <<derived, inner_hookexec, oldcall, undone, nested>>

----------------------------------------------------------------------------
(* PluginManager.unregister and set_blocked *)

\* unregister_name deleting a blocked entry too
unregister_name_any(n2p, name) ==
    IF HasKey(n2p, name) THEN DictDel(n2p, name) ELSE n2p

\* del self._name2plugin[name], unless the name is unknown or blocked
unregister_name(n2p, name) ==
    IF DictGet(n2p, name) \in Plugins THEN DictDel(n2p, name) ELSE n2p

\* self._plugin2hookcallers.pop(plugin, [])
popped(p2h, plugin) ==
    IF plugin \in Plugins /\ p2h[plugin].present THEN p2h[plugin].hcs ELSE << >>

\* unregister_body deleting from self.hook the hook callers it empties
unregister_body_dropping(n2p, p2h, h, d, plugin, name) ==
    LET plugin1 == IF plugin = NoPlugin THEN get_plugin(n2p, name) ELSE plugin
        hcs == Range(popped(p2h, plugin1))
        left(hc) == IF get_hookimpls(_remove_plugin(hc, plugin1)) = << >>
                    THEN NoCaller ELSE _remove_plugin(hc, plugin1)
    IN  [n2p |-> unregister_name(n2p, name),
         p2h |-> IF plugin1 \in Plugins
                 THEN [p2h EXCEPT ![plugin1] = NotRegistered] ELSE p2h,
         hook |-> [n \in HookNames |->
                     IF Ref(0, n) \in hcs THEN left(h[n]) ELSE h[n]],
         derived |-> [i \in 1..Len(d) |->
                     IF Ref(i, d[i].name) \in hcs THEN _remove_plugin(d[i], plugin1)
                     ELSE d[i]],
         ret |-> plugin1]

\* the body of unregister once the assertions passed
unregister_body(n2p, p2h, h, d, plugin, name) ==
    LET plugin1 == IF plugin = NoPlugin THEN get_plugin(n2p, name) ELSE plugin
        hcs == Range(popped(p2h, plugin1))
    IN  [n2p |-> unregister_name(n2p, name),
         p2h |-> IF plugin1 \in Plugins
                 THEN [p2h EXCEPT ![plugin1] = NotRegistered] ELSE p2h,
         hook |-> [n \in HookNames |->
                     IF Ref(0, n) \in hcs THEN _remove_plugin(h[n], plugin1)
                     ELSE h[n]],
         derived |-> [i \in 1..Len(d) |->
                     IF Ref(i, d[i].name) \in hcs THEN _remove_plugin(d[i], plugin1)
                     ELSE d[i]],
         ret |-> plugin1]

unregister(plugin, name) ==
    LET name1 == IF name = NoName /\ plugin # NoPlugin
                 THEN get_name(name2plugin, plugin) ELSE name
        done == unregister_body(name2plugin, plugin2hookcallers, hook, derived,
                                plugin, name1)
    IN  /\ trace' = << >>
        /\ UNCHANGED <<inner_hookexec, oldcall, undone, nested>>
        /\ IF name1 = NoName
           THEN /\ last' = Last("unregister", plugin, name, "", "",
                                "AssertionError", "")
                /\ UNCHANGED registry
           ELSE /\ name2plugin' = done.n2p
                /\ plugin2hookcallers' = done.p2h
                /\ hook' = done.hook
                /\ derived' = done.derived
                /\ last' = Last("unregister", plugin, name, "", "", "ok", done.ret)

set_blocked(name) ==
    LET done == unregister_body(name2plugin, plugin2hookcallers, hook, derived,
                                NoPlugin, name)
    IN  /\ name2plugin' = DictSet(done.n2p, name, Blocked)
        /\ plugin2hookcallers' = done.p2h
        /\ hook' = done.hook
        /\ derived' = done.derived
        /\ trace' = << >>
        /\ last' = Last("set_blocked", NoPlugin, name, "", "", "ok", "")
        /\ UNCHANGED <<inner_hookexec, oldcall, undone, nested>>

----------------------------------------------------------------------------
(* PluginManager.add_hookspecs and check_pending *)

RECURSIVE verify_all(_, _, _)
\* for hookfunction in hc.get_hookimpls(): self._verify_hook(hc, hookfunction)
verify_all(hc, impls, i) ==
    IF i > Len(impls) THEN "ok"
    ELSE IF _verify_hook(hc, impls[i]) # "ok" THEN _verify_hook(hc, impls[i])
    ELSE verify_all(hc, impls, i + 1)

RECURSIVE add_hookspecs_loop(_, _, _)
\* the loop over dir(module_or_class), from its i-th marked name on
add_hookspecs_loop(h, ns, i) ==
    IF i > Len(NamespaceSpecs(ns))
    THEN [hook |-> h, failed |-> "",
          result |-> IF Len(NamespaceSpecs(ns)) = 0 THEN "ValueError" ELSE "ok"]
    ELSE
    LET spec_opts == NamespaceSpecs(ns)[i]
        name == spec_opts.name
    IN  IF ~h[name].exists
        THEN add_hookspecs_loop(
                 [h EXCEPT ![name] = NewSpecHookCaller(name, ns, spec_opts)], ns, i + 1)
        ELSE LET hc == set_specification(h[name], ns, spec_opts)
                 h1 == [h EXCEPT ![name] = hc]
                 v == verify_all(hc, get_hookimpls(hc), 1)
             IN  IF v # "ok" THEN [hook |-> h1, failed |-> name, result |-> v]
                 ELSE add_hookspecs_loop(h1, ns, i + 1)

add_hookspecs(ns) ==
    LET done == add_hookspecs_loop(hook, ns, 1)
    IN  /\ hook' = done.hook
        /\ trace' = << >>
        /\ last' = Last("add_hookspecs", NoPlugin, NoName, ns, done.failed,
                        done.result, "")
        /\ UNCHANGED <<name2plugin, plugin2hookcallers, derived, inner_hookexec,
                       oldcall, undone, nested>>

\* the hooks check_pending raises for
pending(h) ==
    { name \in HookNames :
        /\ h[name].exists
        /\ name \notin Underscored
        /\ ~has_spec(h[name])
        /\ \E i \in 1..Len(get_hookimpls(h[name])) :
               ~get_hookimpls(h[name])[i].optionalhook }

check_pending ==
    /\ last' = Last("check_pending", NoPlugin, NoName, "", "",
                    IF pending(hook) # {} THEN "PluginValidationError" ELSE "ok", "")
    /\ trace' = << >>
    /\ UNCHANGED <<registry, inner_hookexec, oldcall, undone, nested>>

----------------------------------------------------------------------------
(* PluginManager.subset_hook_caller *)

\* track without recording the derived hook caller
track_nothing(p2h, plugin, ref) == p2h

\* self._plugin2hookcallers.setdefault(plugin, []).append(hc)
track(p2h, plugin, ref) ==
    [p2h EXCEPT ![plugin] = [present |-> TRUE, hcs |-> Append(p2h[plugin].hcs, ref)]]

RECURSIVE subset_loop(_, _, _, _, _, _)
\* the loop over orig.get_hookimpls(), from the i-th implementation on
subset_loop(hc, p2h, impls, to_remove, ref, i) ==
    IF i > Len(impls) THEN [hc |-> hc, p2h |-> p2h]
    ELSE IF impls[i].plugin \notin to_remove
    THEN subset_loop(_add_hookimpl(hc, impls[i]), track(p2h, impls[i].plugin, ref),
                     impls, to_remove, ref, i + 1)
    ELSE subset_loop(hc, p2h, impls, to_remove, ref, i + 1)

\* the filter of remove_plugins left out
plugins_to_remove_all(name, remove_plugins) == remove_plugins

\* [plug for plug in remove_plugins if hasattr(plug, name)]
plugins_to_remove(name, remove_plugins) ==
    { plug \in remove_plugins : name \in PluginAttrs(plug) }

subset_hook_caller(name, remove_plugins) ==
    LET orig == hook[name]
        to_remove == plugins_to_remove(name, remove_plugins)
        ref == Ref(Len(derived) + 1, name)
        done == subset_loop(NewSpecHookCaller(orig.name, orig.spec.namespace, orig.spec),
                            plugin2hookcallers, get_hookimpls(orig),
                            to_remove, ref, 1)
        said(result, ret) ==
            [Last("subset_hook_caller", NoPlugin, NoName, "", name, result, ret)
                EXCEPT !.removed = remove_plugins]
    IN  /\ trace' = << >>
        /\ UNCHANGED <<name2plugin, hook, inner_hookexec, oldcall, undone, nested>>
        /\ IF ~orig.exists
           THEN /\ last' = said("AttributeError", "")
                /\ UNCHANGED <<plugin2hookcallers, derived>>
           ELSE IF to_remove = {}
           THEN /\ last' = said("ok", "orig")
                /\ UNCHANGED <<plugin2hookcallers, derived>>
           ELSE IF ~has_spec(orig)
           THEN /\ last' = said("AssertionError", "")
                /\ UNCHANGED <<plugin2hookcallers, derived>>
           ELSE /\ Len(derived) < MaxDerived
                /\ derived' = Append(derived, done.hc)
                /\ plugin2hookcallers' = done.p2h
                /\ last' = said("ok", "derived")

----------------------------------------------------------------------------
(* Hook calls (hooks.py) through PluginManager._hookexec *)

\* hook.<name>(x=x) on one of the manager's hook callers
call(name, x, badbefore) ==
    LET hc == hook[name]
        res == _hookexec(inner_hookexec, get_hookimpls(hc), x,
                         has_spec(hc) /\ hc.spec.firstresult, badbefore)
    IN  /\ hc.exists
        /\ ~is_historic(hc)
        /\ trace' = res.trace
        /\ last' = [Last("call", NoPlugin, NoName, "", name,
                         IF res.exc THEN "CallFailure" ELSE "ok", "")
                      EXCEPT !.x = x, !.badbefore = badbefore, !.value = res.val]
        /\ UNCHANGED <<registry, inner_hookexec, oldcall, undone, nested>>

\* hc(x=x) on the i-th hook caller made by subset_hook_caller
call_derived(i, x) ==
    /\ i \in 1..Len(derived)
    /\ ~is_historic(derived[i])
    /\ LET hc == derived[i]
           res == _hookexec(inner_hookexec, get_hookimpls(hc), x,
                            has_spec(hc) /\ hc.spec.firstresult, 0)
       IN  /\ trace' = res.trace
           /\ last' = [Last("call_derived", NoPlugin, NoName, "", hc.name,
                            IF res.exc THEN "CallFailure" ELSE "ok", "")
                         EXCEPT !.x = x, !.value = res.val, !.sub = i]
    /\ UNCHANGED <<registry, inner_hookexec, oldcall, undone, nested>>

\* hook.<name>.call_historic(kwargs={x: x}) without a result callback
call_historic(name, x) ==
    LET hc == hook[name]
        res == _hookexec(inner_hookexec, get_hookimpls(hc), x, FALSE, 0)
    IN  /\ hc.exists
        /\ is_historic(hc)
        /\ Len(hc.call_history) < MaxHistory
        /\ hook' = IF res.exc THEN hook
                   ELSE [hook EXCEPT ![name].call_history = Append(@, x)]
        /\ trace' = res.trace
        /\ last' = [Last("call_historic", NoPlugin, NoName, "", name,
                         IF res.exc THEN "CallFailure" ELSE "ok", "")
                      EXCEPT !.x = x]
        /\ UNCHANGED <<name2plugin, plugin2hookcallers, derived, inner_hookexec,
                       oldcall, undone, nested>>

----------------------------------------------------------------------------
(* PluginManager.add_hookcall_monitoring *)

\* the tracers are numbered in the order of their installation
add_hookcall_monitoring ==
    /\ Len(oldcall) < MaxMonitors
    /\ oldcall' = Append(oldcall, inner_hookexec)
    /\ inner_hookexec' = <<Len(oldcall) + 1>> \o inner_hookexec
    /\ trace' = << >>
    /\ last' = [Last("add_hookcall_monitoring", NoPlugin, NoName, "", "", "ok", "")
                  EXCEPT !.x = Len(oldcall) + 1]
    /\ UNCHANGED <<registry, undone, nested>>

\* restored with the oldcall of the newest installation
restored_newest(oc, i) == oc[Len(oc)]

\* self._inner_hookexec = oldcall, in the undo of the i-th installation
restored(oc, i) == oc[i]

\* the undo function the i-th installation returned
undo(i) ==
    /\ i \in 1..Len(oldcall)
    /\ inner_hookexec' = restored(oldcall, i)
    /\ undone' = undone \cup {i}
    /\ nested' = (nested /\ inner_hookexec # << >> /\ Head(inner_hookexec) = i)
    /\ trace' = << >>
    /\ last' = [Last("undo", NoPlugin, NoName, "", "", "ok", "") EXCEPT !.x = i]
    /\ UNCHANGED <<registry, oldcall>>

\* varnames(func) called on one callable
varnames_call(func) ==
    /\ last' = [Last("varnames", NoPlugin, NoName, "", "", "ok", "")
                  EXCEPT !.func = func, !.value = varnames(func)]
    /\ trace' = << >>
    /\ UNCHANGED <<registry, inner_hookexec, oldcall, undone, nested>>

----------------------------------------------------------------------------
(* The initial state: PluginManager.__init__ *)

Init ==
    /\ name2plugin = << >>
    /\ plugin2hookcallers = [p \in Plugins |-> NotRegistered]
    /\ hook = [n \in HookNames |-> NoCaller]
    /\ derived = << >>
    /\ inner_hookexec = << >>
    /\ oldcall = << >>
    /\ undone = {}
    /\ nested = TRUE
    /\ last = Last("init", NoPlugin, NoName, "", "", "ok", "")
    /\ trace = << >>

\* Registration, unregistration and blocking of two plugins under their own
\* and a shared name, with the specs of NsA bound at any point.
NextRegistry ==
    \/ \E p \in {"p1", "p2"}, n \in {NoName, "a"} : register(p, n)
    \/ \E p \in {"p1", "p2", NoPlugin}, n \in {"mod1", "mod2", "a", NoName} :
           unregister(p, n)
    \/ \E n \in {"mod1", "mod2", "a"} : set_blocked(n)
    \/ add_hookspecs("NsA")

SpecRegistry == Init /\ [][NextRegistry]_vars

\* Registration of all plugins under their own names, around the binding of
\* the specs of every namespace, with the pending check.
NextValidation ==
    \/ \E p \in CorePlugins : register(p, NoName)
    \/ \E p \in CorePlugins : unregister(p, NoName)
    \/ \E n \in {"mod2", "mod3"} : set_blocked(n)
    \/ \E ns \in Namespaces : add_hookspecs(ns)
    \/ check_pending

SpecValidation == Init /\ [][NextValidation]_vars

----------------------------------------------------------------------------
(* Properties of the registries *)

\* the plugin of the most recent operation is attached in some way
LastPluginAttached ==
    \/ DictGet(name2plugin, plugin_name_of(last.plugin, last.name)) = last.plugin
    \/ is_registered(plugin2hookcallers, last.plugin)
    \/ Attached(hook, derived, last.plugin)

\* C1: a register call that raised a validation error leaves the plugin
\* unattached: its name is not mapped to it, is_registered is false and no
\* hook caller holds an implementation of it.
C1_FailedRegisterLeavesNothing ==
    (last.op = "register" /\ last.result = "PluginValidationError")
        => ~LastPluginAttached

UniqueKeys(d) == \A i, j \in 1..Len(d) : d[i].name = d[j].name => i = j

\* C2: register raises ValueError, changing nothing, whenever the name is
\* mapped to a plugin or the plugin is registered and the name is not blocked;
\* a name is never mapped twice.
C2_DuplicateRegistrationRaises ==
    [][ /\ UniqueKeys(name2plugin')
        /\ last'.op = "register" =>
             LET p == last'.plugin
                 n == plugin_name_of(p, last'.name)
             IN  ( \/ DictGet(name2plugin, n) \in Plugins
                   \/ /\ is_registered(plugin2hookcallers, p)
                      /\ ~is_blocked(name2plugin, n) )
                 => (last'.result = "ValueError" /\ UNCHANGED registry) ]_vars

\* a register call was refused although the requested name was free: the
\* plugin object was registered under another name
C2_Witness ==
    /\ last.op = "register"
    /\ last.result = "ValueError"
    /\ ~HasKey(name2plugin, plugin_name_of(last.plugin, last.name))
    /\ is_registered(plugin2hookcallers, last.plugin)

\* C3: a blocked name stays blocked and has no plugin, set_blocked blocks the
\* name and detaches the plugin registered under it, and register under a
\* blocked name returns None and changes nothing.
C3_BlockingIsPermanent ==
    [][ /\ \A n \in Names :
             is_blocked(name2plugin, n)
               => (is_blocked(name2plugin', n) /\ ~has_plugin(name2plugin', n))
        /\ last'.op = "set_blocked" =>
             LET n == last'.name
                 p == DictGet(name2plugin, n)
             IN  /\ is_blocked(name2plugin', n)
                 /\ ~has_plugin(name2plugin', n)
                 /\ p \in Plugins =>
                      /\ ~is_registered(plugin2hookcallers', p)
                      /\ ~Attached(hook', derived', p)
        /\ ( /\ last'.op = "register"
             /\ is_blocked(name2plugin, plugin_name_of(last'.plugin, last'.name)) )
           => (last'.result = "None" /\ UNCHANGED registry) ]_vars

\* a register call under a blocked name returned None while the plugin it
\* replaced stays detached
C3_Witness ==
    /\ last.op = "register"
    /\ last.result = "None"
    /\ is_blocked(name2plugin, plugin_name_of(last.plugin, last.name))
    /\ ~Attached(hook, derived, last.plugin)

\* unregister was called with a name alone that maps to no plugin
NameAloneUnresolved ==
    /\ last'.op = "unregister"
    /\ last'.plugin = NoPlugin
    /\ last'.name # NoName
    /\ get_plugin(name2plugin, last'.name) = NoPlugin

\* C5 as stated: unregister with only an unmapped name, or only a plugin that
\* is not registered, raises and leaves the registry unchanged.
C5_UnresolvedUnregisterRaises ==
    [][ ( \/ NameAloneUnresolved
          \/ /\ last'.op = "unregister"
             /\ last'.plugin # NoPlugin
             /\ last'.name = NoName
             /\ ~is_registered(plugin2hookcallers, last'.plugin) )
        => (last'.result # "ok" /\ UNCHANGED registry) ]_vars

\* C5 amended: with only a plugin that no name maps to, unregister fails its
\* assertion; with only a name that maps to no plugin, it returns None; the
\* registry is unchanged in both cases.
C5_UnresolvedUnregister ==
    [][ /\ NameAloneUnresolved
           => (last'.result = "ok" /\ last'.ret = NoPlugin /\ UNCHANGED registry)
        /\ ( /\ last'.op = "unregister"
             /\ last'.plugin # NoPlugin
             /\ last'.name = NoName
             /\ \A i \in 1..Len(name2plugin) : name2plugin[i].val # last'.plugin )
           => (last'.result = "AssertionError" /\ UNCHANGED registry) ]_vars

\* unregister by a blocked name alone returned None
C5_Witness ==
    /\ last.op = "unregister"
    /\ last.plugin = NoPlugin
    /\ is_blocked(name2plugin, last.name)
    /\ last.result = "ok"
    /\ last.ret = NoPlugin

----------------------------------------------------------------------------
(* Properties of validation *)

ImplsOf(hc) == Range(get_hookimpls(hc))

\* C6: every implementation attached to a hook caller with a bound spec
\* declares only argument names of that spec.
C6_AttachedImplsMatchSpec ==
    /\ \A n \in HookNames :
         (hook[n].exists /\ has_spec(hook[n]))
           => \A impl \in ImplsOf(hook[n]) : impl.argnames \subseteq hook[n].spec.argnames
    /\ \A i \in 1..Len(derived) :
         has_spec(derived[i])
           => \A impl \in ImplsOf(derived[i]) :
                 impl.argnames \subseteq derived[i].spec.argnames

\* the implementation breaks the spec options: an argument the spec does not
\* declare, or a hookwrapper on a historic hook
Breaks(impl, argnames, historic) ==
    \/ impl.argnames \ argnames # {}
    \/ impl.hookwrapper /\ historic

SpecsOf(ns) == Range(NamespaceSpecs(ns))

\* C7 as stated, for each hook: an add_hookspecs call that binds a spec to a
\* hook created without one raises a validation error if and only if an
\* implementation attached to that hook breaks the spec.
C7_BindingRaisesIffThatHookBreaks ==
    [][ last'.op = "add_hookspecs" =>
          \A n \in HookNames :
            (hook[n].exists /\ ~has_spec(hook[n]) /\ has_spec(hook'[n]))
              => ( last'.result = "PluginValidationError"
                   <=> \E impl \in ImplsOf(hook[n]) :
                          Breaks(impl, hook'[n].spec.argnames,
                                 hook'[n].spec.historic) ) ]_vars

\* the hook a marked method of a plugin is registered for
HookOf(m) == IF m.specname # "" THEN m.specname ELSE m.attr

\* C7 amended: register never raises a validation error for a hook without
\* a spec and raises one exactly when a method of the plugin breaks the spec
\* already bound to its hook; add_hookspecs raises one exactly when an
\* implementation attached to some hook the namespace declares breaks the
\* spec declared for that hook.
C7_DeferredValidation ==
    [][ /\ last'.op = "add_hookspecs" =>
             ( last'.result = "PluginValidationError"
               <=> \E o \in SpecsOf(last'.ns) :
                     /\ hook[o.name].exists
                     /\ \E impl \in ImplsOf(hook[o.name]) :
                           Breaks(impl, o.argnames, o.historic) )
        /\ (last'.op = "register" /\ last'.result \notin {"None", "ValueError"}) =>
             /\ last'.result = "PluginValidationError"
                  => has_spec(hook[last'.hookname])
             /\ last'.result = "PluginValidationError"
                  <=> \E m \in Range(PluginMethods(last'.plugin)) :
                        /\ has_spec(hook[HookOf(m)])
                        /\ Breaks(m, hook[HookOf(m)].spec.argnames,
                                  hook[HookOf(m)].spec.historic) ]_vars

\* add_hookspecs raised for h2, to which an implementation declaring y had
\* been attached before any spec existed
C7_Witness ==
    /\ last.op = "add_hookspecs"
    /\ last.result = "PluginValidationError"
    /\ last.hookname = "h2"
    /\ \E impl \in ImplsOf(hook["h2"]) : "y" \in impl.argnames

\* C8: check_pending raises exactly when some hook caller without a spec
\* holds an implementation that is not optional.
C8_CheckPendingRaisesIffPending ==
    last.op = "check_pending" =>
        ( last.result = "PluginValidationError"
          <=> \E n \in HookNames :
                /\ hook[n].exists
                /\ ~has_spec(hook[n])
                /\ \E impl \in ImplsOf(hook[n]) : ~impl.optionalhook )

----------------------------------------------------------------------------
(* Derived hook callers *)

\* Registration and unregistration of all plugins under their own names,
\* with derived hook callers made for h1 and h2 once NsA is bound.
NextSubset ==
    \/ \E p \in CorePlugins : register(p, NoName)
    \/ \E p \in CorePlugins \cup {NoPlugin}, n \in {NoName, "mod1"} : unregister(p, n)
    \/ add_hookspecs("NsA")
    \/ \E n \in {"h1", "h2"}, r \in SUBSET CorePlugins : subset_hook_caller(n, r)

SpecSubset == Init /\ [][NextSubset]_vars

\* the implementation list without the implementations of the plugin
Without(impls, plugin) ==
    LET Other(e) == e.plugin # plugin IN SelectSeq(impls, Other)

\* hc2 is hc1 less the implementations of the plugin, the others in place
Removed(hc1, hc2, plugin) ==
    /\ hc2.nonwrappers = Without(hc1.nonwrappers, plugin)
    /\ hc2.wrappers = Without(hc1.wrappers, plugin)
    /\ get_hookimpls(hc2) = Without(get_hookimpls(hc1), plugin)

\* C4: unregister(plugin) leaves no hook caller, the manager's or a derived
\* one, holding an implementation of the plugin, and every hook caller keeps
\* the other implementations in the order they had.
C4_UnregisterRemovesExactlyOwn ==
    [][ ( /\ last'.op = "unregister"
          /\ last'.plugin # NoPlugin
          /\ last'.name = NoName
          /\ last'.result = "ok" )
        => /\ ~Attached(hook', derived', last'.plugin)
           /\ \A n \in HookNames :
                /\ hook'[n].exists = hook[n].exists
                /\ Removed(hook[n], hook'[n], last'.plugin)
           /\ Len(derived') = Len(derived)
           /\ \A i \in 1..Len(derived) :
                Removed(derived[i], derived'[i], last'.plugin) ]_vars

\* a plugin was unregistered whose implementation had been copied into a
\* derived hook caller, which still holds another plugin's implementation
C4_Witness ==
    /\ last.op = "unregister"
    /\ last.name = NoName
    /\ last.result = "ok"
    /\ last.ret \in Plugins
    /\ \E i \in 1..Len(derived) :
         /\ get_hookimpls(derived[i]) # << >>
         /\ Ref(i, derived[i].name) \notin Range(plugin2hookcallers[last.ret].hcs)
         /\ \E n \in HookNames :
              /\ Holds(hook[n], get_hookimpls(derived[i])[1].plugin)
              /\ Len(get_hookimpls(hook[n])) >= 1

\* the hook caller the last subset_hook_caller call returned
Returned == IF last.ret = "orig" THEN hook[last.hookname] ELSE derived[Len(derived)]

\* C12: the hook caller subset_hook_caller returns has the name and the spec
\* of the manager's hook caller and holds exactly its implementations that no
\* excluded plugin owns, in the same order.
C12_SubsetExcludesPlugins ==
    (last.op = "subset_hook_caller" /\ last.result = "ok") =>
        LET orig == hook[last.hookname]
            Kept(e) == e.plugin \notin last.removed
        IN  /\ Returned.name = orig.name
            /\ Returned.has_spec = orig.has_spec
            /\ Returned.spec = orig.spec
            /\ get_hookimpls(Returned) = SelectSeq(get_hookimpls(orig), Kept)

----------------------------------------------------------------------------
(* Historic replay *)

\* Calls of the historic hook h2 between registrations, with NsA bound
\* before or after the first plugins.
NextHistoric ==
    \/ \E p \in CorePlugins : register(p, NoName)
    \/ \E p \in CorePlugins : unregister(p, NoName)
    \/ add_hookspecs("NsA")
    \/ \E x \in KwargValues : call_historic("h2", x)

SpecHistoric == Init /\ [][NextHistoric]_vars

\* the arguments of the invocations of one method in the trace, in order
RECURSIVE ArgsTo(_, _)
ArgsTo(tr, attr) ==
    IF tr = << >> THEN << >>
    ELSE IF Head(tr).kind = "call" /\ Head(tr).attr = attr
    THEN <<Head(tr).x>> \o ArgsTo(Tail(tr), attr)
    ELSE ArgsTo(Tail(tr), attr)

\* C9: a successful register invokes nothing but the new plugin's own
\* implementations, and each of them that joins a historic hook once per
\* stored call of that hook, with the stored arguments in the stored order.
C9_HistoricReplay ==
    [][ (last'.op = "register" /\ last'.result = "ok") =>
          /\ \A i \in 1..Len(trace') :
               trace'[i].kind = "call" /\ trace'[i].plugin = last'.plugin
          /\ \A m \in Range(PluginMethods(last'.plugin)) :
               ArgsTo(trace', m.attr) =
                 IF is_historic(hook[HookOf(m)])
                 THEN hook[HookOf(m)].call_history ELSE << >> ]_vars

\* p1 joined h2 after the calls with x = 1 and then x = 2, while p2's
\* implementation was attached already: p1's alone was invoked, twice
C9_Witness ==
    /\ last.op = "register"
    /\ last.plugin = "p1"
    /\ last.result = "ok"
    /\ hook["h2"].call_history = <<1, 2>>
    /\ Holds(hook["h2"], "p2")
    /\ Len(trace) = 2
    /\ trace[1].x = 1
    /\ trace[2].x = 2

\* C16: a register call that raised a validation error has neither invoked
\* nor attached any method of the plugin that breaks the spec of its hook.
C16_InvalidImplNeitherReplayedNorAdded ==
    [][ (last'.op = "register" /\ last'.result = "PluginValidationError") =>
          \A m \in Range(PluginMethods(last'.plugin)) :
            ( /\ has_spec(hook[HookOf(m)])
              /\ Breaks(m, hook[HookOf(m)].spec.argnames,
                        hook[HookOf(m)].spec.historic) )
            => /\ \A i \in 1..Len(trace') :
                    ~(trace'[i].plugin = last'.plugin /\ trace'[i].attr = m.attr)
               /\ \A impl \in ImplsOf(hook'[HookOf(m)]) :
                    ~(impl.plugin = last'.plugin /\ impl.attr = m.attr) ]_vars

\* p3 was refused for its hookwrapper on the historic hook h2, which has
\* stored calls and another plugin's implementation
C16_Witness ==
    /\ last.op = "register"
    /\ last.plugin = "p3"
    /\ last.result = "PluginValidationError"
    /\ last.hookname = "h2"
    /\ Len(hook["h2"].call_history) = 2
    /\ Holds(hook["h2"], "p1")
    /\ ~Holds(hook["h2"], "p3")
    /\ trace = << >>

----------------------------------------------------------------------------
(* Hook-call monitoring *)

\* Calls of h1 with one or two plugins and up to MaxMonitors tracers, none
\* of them undone.
NextMonitor ==
    \/ \E p \in {"p1", "p2"} : register(p, NoName)
    \/ \E p \in {"p1", "p2"} : unregister(p, NoName)
    \/ add_hookspecs("NsA")
    \/ add_hookcall_monitoring
    \/ \E x \in KwargValues, b \in 0..Len(oldcall) : call("h1", x, b)

SpecMonitor == Init /\ [][NextMonitor]_vars

\* the execution of the hook's implementations, without any tracer
Execution == _multicall(get_hookimpls(hook[last.hookname]), last.x,
                        has_spec(hook[last.hookname])
                          /\ hook[last.hookname].spec.firstresult)

\* C10: with n tracers installed a call runs the before functions from the
\* newest to the oldest, then the implementations, then the after functions
\* from the oldest to the newest, each with the outcome of the execution;
\* when a before function raises, nothing inside it runs and exactly the
\* tracers whose before returned get their after, with the failure.
C10_MonitoringNests ==
    (last.op = "call") =>
      LET n == Len(oldcall)
          b == IF last.badbefore = 0 THEN n ELSE n + 1 - last.badbefore
          a == IF last.badbefore = 0 THEN n ELSE n - last.badbefore
          body == IF last.badbefore = 0 THEN Execution.trace ELSE << >>
      IN  /\ Len(trace) = b + Len(body) + a
          /\ \A i \in 1..b :
               /\ trace[i].kind = "before"
               /\ trace[i].mon = n + 1 - i
               /\ trace[i].x = last.x
          /\ SubSeq(trace, b + 1, b + Len(body)) = body
          /\ \A i \in 1..a :
               /\ trace[Len(trace) + 1 - i].kind = "after"
               /\ trace[Len(trace) + 1 - i].mon = n + 1 - i
               /\ trace[Len(trace) + 1 - i].x = last.x
               /\ trace[Len(trace) + 1 - i].exc = (last.result = "CallFailure")
               /\ trace[Len(trace) + 1 - i].val = last.value
          /\ last.badbefore = 0 =>
               /\ (last.result = "CallFailure") = Execution.exc
               /\ last.value = Execution.val
          /\ last.badbefore # 0 => last.result = "CallFailure"

\* a call under two tracers in which an implementation raised: both before
\* functions ran, then the implementation, then both after functions
C10_Witness ==
    /\ last.op = "call"
    /\ Len(oldcall) = 2
    /\ last.badbefore = 0
    /\ last.result = "CallFailure"
    /\ Len(trace) = 5
    /\ trace[3].kind = "call"
    /\ trace[4].kind = "after" /\ trace[4].mon = 1 /\ trace[4].exc
    /\ trace[5].kind = "after" /\ trace[5].mon = 2 /\ trace[5].exc

----------------------------------------------------------------------------
(* Undoing hook-call monitoring *)

\* Calls of h1 with up to MaxMonitors tracers installed and undone in any
\* order, any number of times.
NextUndo ==
    \/ \E p \in {"p1", "p2"} : register(p, NoName)
    \/ add_hookcall_monitoring
    \/ \E i \in 1..MaxMonitors : undo(i)
    \/ \E x \in KwargValues : call("h1", x, 0)

SpecUndo == Init /\ [][NextUndo]_vars

\* the tracers whose function of the given kind the last operation invoked
Invoked(kind) == { trace[i].mon : i \in { j \in 1..Len(trace) : trace[j].kind = kind } }

\* the installations whose undo function has not been called
NotUndone == (1..Len(oldcall)) \ undone

----------------------------------------------------------------------------
(* The order of dispatch and the results of a call *)

\* Calls of h1, which has no spec, and of the firstresult hook _h3 with the
\* plugins registered in any order.
NextDispatch ==
    \/ \E p \in Plugins : register(p, NoName)
    \/ add_hookspecs("NsB")
    \/ \E n \in {"h1", "_h3"}, x \in KwargValues : call(n, x, 0)

SpecDispatch == Init /\ [][NextDispatch]_vars

\* the events of one kind in the trace of the last operation, in order
Events(kind) == LET Is(e) == e.kind = kind IN SelectSeq(trace, Is)

\* the event is an invocation of the implementation
SameImpl(ev, impl) == ev.plugin = impl.plugin /\ ev.attr = impl.attr

\* the hook caller the last call went through
Called == hook[last.hookname]

\* the plain implementations of the called hook in the order of execution
Exec == Reverse(Called.nonwrappers)

\* the non-None return values of the implementations, in their order
Returns(impls) ==
    LET NotNone(r) == r # "None"
    IN  SelectSeq([i \in 1..Len(impls) |-> impls[i].ret], NotNone)

NoneRaises == \A i \in 1..Len(Exec) : Exec[i].ret # "raise"

NoneForces == \A i \in 1..Len(Called.wrappers) : Called.wrappers[i].ret = "None"

Tier(impl) == IF impl.tryfirst THEN 1 ELSE IF impl.trylast THEN 3 ELSE 2

\* C13: a call of a hook that is not firstresult invokes the plain
\* implementations from the end of the list backward, the tryfirst ones before
\* the unmarked ones before the trylast ones, and returns the list of their
\* non-None results in that order.
C13_PlainOrderAndResults ==
    (last.op = "call" /\ ~(has_spec(Called) /\ Called.spec.firstresult)) =>
        /\ Len(Events("call")) <= Len(Exec)
        /\ \A i \in 1..Len(Events("call")) : SameImpl(Events("call")[i], Exec[i])
        /\ \A i, j \in 1..Len(Events("call")) :
             i < j => Tier(Exec[i]) <= Tier(Exec[j])
        /\ NoneRaises => Len(Events("call")) = Len(Exec)
        /\ (NoneRaises /\ NoneForces) =>
             (last.result = "ok" /\ last.value = ListOf(Returns(Exec)))

\* p1 registered first and p4 second: p4's tryfirst implementation ran, then
\* p1's unmarked one, then p4's trylast one
C13_Witness ==
    /\ last.op = "call"
    /\ last.hookname = "h1"
    /\ Len(name2plugin) = 2
    /\ name2plugin[1].val = "p1"
    /\ name2plugin[2].val = "p4"
    /\ Len(trace) = 3
    /\ trace[1].plugin = "p4" /\ trace[1].attr = "h1"
    /\ trace[2].plugin = "p1"
    /\ trace[3].plugin = "p4" /\ trace[3].attr = "h1_last"
    /\ last.value = <<"list", "r4", "r1", "r5">>

\* the place in the order of execution of the first implementation that
\* returns a value, or the number of implementations if none does
FirstHit ==
    LET hits == { i \in 1..Len(Exec) : Exec[i].ret # "None" }
    IN  IF hits = {} THEN Len(Exec)
        ELSE CHOOSE i \in hits : \A j \in hits : i <= j

\* C14: a call of a firstresult hook invokes the implementations up to the
\* first one that returns a value and no other, and returns that value, or
\* None when every implementation returned None.
C14_FirstResultStops ==
    (last.op = "call" /\ has_spec(Called) /\ Called.spec.firstresult /\ NoneRaises) =>
        /\ Len(Events("call")) = FirstHit
        /\ \A i \in 1..FirstHit : SameImpl(Events("call")[i], Exec[i])
        /\ NoneForces =>
             /\ last.result = "ok"
             /\ last.value = IF Returns(Exec) = << >> THEN None
                              ELSE Single(Exec[FirstHit].ret)

\* of three implementations of _h3 the first returned None, the second a
\* value, and the third was not invoked
C14_Witness ==
    /\ last.op = "call"
    /\ last.hookname = "_h3"
    /\ Called.spec.firstresult
    /\ Len(Exec) = 3
    /\ Len(trace) = 2
    /\ trace[1].plugin = "p4"
    /\ trace[2].plugin = "p3"
    /\ last.value = <<"value", "r3">>

\* a plain implementation raised in the last call
Raised == \E i \in 1..Len(Events("call")) : Events("call")[i].exc

\* the hookwrappers of the called hook in the order they are entered
Entered == Reverse(Called.wrappers)

\* the hookwrappers resumed ahead of the i-th resumption that force a result
ForcedBefore(i) == { j \in 1..(i - 1) : Called.wrappers[j].ret # "None" }

Max(S) == CHOOSE i \in S : \A j \in S : j <= i

\* no implementation ran after the one that raised, and the hookwrappers
\* were all entered and then resumed in the reverse order
StopsAndResumesAll ==
    /\ \A i \in 1..Len(Events("call")) :
         Events("call")[i].exc => i = Len(Events("call"))
    /\ Len(Events("enter")) = Len(Entered)
    /\ Len(Events("resume")) = Len(Entered)
    /\ \A i \in 1..Len(Entered) :
         /\ SameImpl(Events("enter")[i], Entered[i])
         /\ SameImpl(Events("resume")[i], Called.wrappers[i])

\* the caller gets the result the last resumed of the forcing hookwrappers
\* forced, and the failure when there is none
CallerGetsSubstitute ==
    IF ForcedBefore(Len(Entered) + 1) = {}
    THEN last.result = "CallFailure" /\ last.value = <<"failure">>
    ELSE /\ last.result = "ok"
         /\ last.value = Single(Called.wrappers[Max(ForcedBefore(Len(Entered) + 1))].ret)

----------------------------------------------------------------------------
(* Transparency of monitoring *)

\* the events of the last operation that are not of a tracer
Inside ==
    LET NotTracer(e) == e.kind \notin {"before", "after"} IN SelectSeq(trace, NotTracer)

\* C17: with any tracers installed, none of them raising, a call invokes
\* the implementations and returns or raises as the execution without a
\* tracer does, and a failure has been given to the after function of every
\* active tracer.
C17_MonitoringTransparent ==
    (last.op = "call" /\ last.badbefore = 0) =>
        /\ Inside = Execution.trace
        /\ (last.result = "CallFailure") = Execution.exc
        /\ last.value = Execution.val
        /\ Execution.exc =>
             \A m \in Range(inner_hookexec) :
                \E i \in 1..Len(trace) :
                   /\ trace[i].kind = "after"
                   /\ trace[i].mon = m
                   /\ trace[i].exc
                   /\ trace[i].val = Execution.val

\* a failing call while the first of two tracers is active, the second one
\* undone: the failure reached the caller past the after function
C17_Witness ==
    /\ last.op = "call"
    /\ inner_hookexec = <<1>>
    /\ undone = {2}
    /\ Execution.exc
    /\ last.result = "CallFailure"
    /\ trace[Len(trace)].kind = "after"
    /\ trace[Len(trace)].exc

----------------------------------------------------------------------------
(* The life of a hook caller *)

\* C18: a hook caller of the manager is never removed from self.hook and
\* never loses its spec, and unregister and set_blocked change nothing of a
\* hook caller but its implementation lists, which they only shorten.
C18_HookCallerPersists ==
    [][ /\ \A n \in HookNames :
             hook[n].exists =>
               /\ hook'[n].exists
               /\ hook'[n].name = hook[n].name
               /\ has_spec(hook[n]) => has_spec(hook'[n])
        /\ last'.op \in {"unregister", "set_blocked"} =>
             \A n \in HookNames :
               /\ hook'[n] = [hook[n] EXCEPT !.nonwrappers = hook'[n].nonwrappers,
                                              !.wrappers = hook'[n].wrappers]
               /\ ImplsOf(hook'[n]) \subseteq ImplsOf(hook[n]) ]_vars

\* the hook callers the methods of a plugin are registered with
PluginMethodsRefs(plugin) ==
    [i \in 1..Len(PluginMethods(plugin)) |-> Ref(0, HookOf(PluginMethods(plugin)[i]))]

\* the only plugin of a hook with a spec was unregistered: the hook caller is
\* still there, with its spec and without an implementation
C18_Witness ==
    /\ last.op = "unregister"
    /\ last.result = "ok"
    /\ last.ret \in Plugins
    /\ \E n \in HookNames :
         /\ Ref(0, n) \in Range(PluginMethodsRefs(last.ret))
         /\ hook[n].exists
         /\ has_spec(hook[n])
         /\ get_hookimpls(hook[n]) = << >>

----------------------------------------------------------------------------
(* Consistency of the two registries *)

\* the names mapped to the plugin
NamesOf(plugin) ==
    { name2plugin[i].name : i \in { j \in 1..Len(name2plugin) :
                                      name2plugin[j].val = plugin } }

\* C19: a plugin is a key of _plugin2hookcallers exactly when one name, and
\* no more, is mapped to it, so that is_registered agrees with get_name.
C19_RegistriesConsistent ==
    \A p \in Plugins :
        /\ is_registered(plugin2hookcallers, p) <=> Cardinality(NamesOf(p)) = 1
        /\ is_registered(plugin2hookcallers, p) <=> get_name(name2plugin, p) # NoName
        /\ Cardinality(NamesOf(p)) <= 1

----------------------------------------------------------------------------
(* Derived hook callers over time *)

\* Derived hook callers made for h1 and h2 and called while plugins come and
\* go; p4 is never among the excluded plugins and p3 never registered.
NextDerived ==
    \/ \E p \in {"p1", "p2", "p4"} : register(p, NoName)
    \/ \E p \in {"p1", "p2", "p4"} : unregister(p, NoName)
    \/ add_hookspecs("NsA")
    \/ \E n \in {"h1", "h2"}, r \in SUBSET {"p1", "p3"} : subset_hook_caller(n, r)
    \/ \E i \in 1..MaxDerived, x \in KwargValues : call_derived(i, x)

SpecDerived == Init /\ [][NextDerived]_vars

\* the hook caller holds the implementation made of the plugin's method
HoldsMethod(hc, plugin, m) ==
    \E impl \in ImplsOf(hc) : impl.plugin = plugin /\ impl.attr = m.attr

----------------------------------------------------------------------------
(* The parameter names of a callable *)

\* varnames applied to every callable of up to MaxArgs positional parameters
NextVarnames == \E func \in Callables : varnames_call(func)

SpecVarnames == Init /\ [][NextVarnames]_vars

\* the places in the signature of the positional parameters, the implicit
\* first one aside, that have a default (d) or have none (~d)
Declared(func, d) ==
    { i \in (IF func.kind = "function" THEN 1 ELSE 2)..Len(func.params) :
         ~func.params[i].kwonly /\ func.params[i].default = d }

\* the k-th smallest member of a set of numbers
Kth(S, k) == CHOOSE i \in S : Cardinality({ j \in S : j < i }) = k - 1

\* the names are those of the parameters at the places, in declaration order
InDeclarationOrder(names, func, places) ==
    /\ Len(names) = Cardinality(places)
    /\ \A k \in 1..Len(names) : names[k] = func.params[Kth(places, k)].name

\* C21: varnames returns the names of the positional parameters without a
\* default and of those with a default, each in declaration order, leaving
\* out the implicit first parameter of a bound method, of __call__ and of
\* __init__ and every keyword-only parameter; a class without an __init__ of
\* its own gives two empty tuples.
C21_VarnamesSplitsPositionals ==
    (last.op = "varnames") =>
        /\ Len(last.value) = 2
        /\ InDeclarationOrder(last.value[1], last.func, Declared(last.func, FALSE))
        /\ InDeclarationOrder(last.value[2], last.func, Declared(last.func, TRUE))
        /\ (last.func.kind = "class" /\ ~last.func.own_init)
             => last.value = << << >>, << >> >>

\* varnames of a bound method declared as (self, x, y=..., *, k=...)
C21_Witness ==
    /\ last.op = "varnames"
    /\ last.func.kind = "method"
    /\ Len(last.func.params) = 4
    /\ last.func.params[1].name = "self"
    /\ last.func.params[3].default
    /\ last.func.params[4].kwonly
    /\ last.value = << <<"x">>, <<"y">> >>

====
